---- MODULE Spec2Model ----
(***************************************************************************)
(* StageSync (klippy/extras/stagesync.py): secondary heaters follow the    *)
(* primary heater's target through per-stage ratios.                       *)
(*                                                                         *)
(* Conventions of the model                                                *)
(*   - a Python optional is a sequence of length <= 1: None is <<>>, a     *)
(*     present value v is <<v>>;                                           *)
(*   - a name is a sequence of one-character strings, so that str.strip()  *)
(*     is computed and not assumed;                                        *)
(*   - a ratio is an integer number of hundredths (0.5 is 50), a target an *)
(*     integer number of degrees, so target * ratio is exact in hundredths.*)
(***************************************************************************)
EXTENDS Integers, Sequences, FiniteSets, TLC

VARIABLES
    pc,               \* "config": __init__ has not run; "loaded": it has returned
    cfg_stages,       \* config.get('stages').split(',')
    cfg_temp_ratio,   \* config.get('temp_ratio').split(',')
    heater,           \* self.heater
    stages,           \* self.stages: sequence of [heater_obj, ratio]
    last_target_temp, \* self.last_target_temp
    check_timer,      \* reactor timer of check_event: None, or its next wake time
    shutdown,         \* messages handed to printer.invoke_shutdown, in order
    signals,          \* lifecycle signals the host has delivered
    primary_target,   \* the primary heater's commanded target (host state)
    tick_sample,      \* what the latest poll tick sampled (None: nothing, or it raised)
    op,               \* the callback that ran last
    trace             \* what that callback did: see Quiet

vars == <<pc, cfg_stages, cfg_temp_ratio, heater, stages, last_target_temp,
          check_timer, shutdown, signals, primary_target, tick_sample, op, trace>>

----------------------------------------------------------------------------
(* Bounds of the model *)

\* longest configured list (names, ratio literals)
MaxStages == 2
\* the reactor clock stops the model at this time
MaxTime == 2

(* Program constants *)

\* reactor.NOW
NOW == 0
\* check_event's rescheduling interval: eventtime + 1.0
PollInterval == 1
\* reactor.NEVER, the wake time that cancels a timer: a time no clock of the
\* model reaches (the reactor's own value is 9999999999999999)
NEVER == 999
\* 0.0 <= ratio <= 2.0, in hundredths
RatioMin == 0
RatioMax == 200

None == <<>>
Some(v) == <<v>>

\* configured names: "L", " R" (as written after a comma and a blank), "G"
Names == { <<"L">>, <<" ", "R">>, <<"G">> }
\* heaters the device registry resolves
Registry == { <<"L">>, <<"R">> }
\* the primary heater's name, config.get_name().split()[1]
PrimaryName == <<"P">>
\* configured ratio literals
Literals == { "0.5", " 1.2", "2.5", "abc" }
\* targets the primary heater can be commanded to (0 is a heater switched off)
Targets == { 0, 200 }

\* the lists str.split(',') can yield, up to the bound: never the empty list
ListsOver(S) == UNION { [1..n -> S] : n \in 1..MaxStages }

----------------------------------------------------------------------------
(* Pure functions *)

\* str.strip(): leading and trailing blanks removed
RECURSIVE LStrip(_)
LStrip(s) == IF s # <<>> /\ Head(s) = " " THEN LStrip(Tail(s)) ELSE s

RECURSIVE RStrip(_)
RStrip(s) ==
    IF s # <<>> /\ s[Len(s)] = " " THEN RStrip(SubSeq(s, 1, Len(s) - 1)) ELSE s

Strip(s) == RStrip(LStrip(s))

\* float(literal), in hundredths; None stands for ValueError
ParseFloat(lit) ==
    CASE lit = "0.5"  -> Some(50)
      [] lit = " 1.2" -> Some(120)
      [] lit = "2.5"  -> Some(250)
      [] OTHER        -> None

\* 0.0 <= ratio <= 2.0
RatioInRange(ratio) == RatioMin <= ratio /\ ratio <= RatioMax

\* printer.lookup_object('heater', name): the heater object, or None
LookupObject(name) == IF name \in Registry THEN Some(name) ELSE None

----------------------------------------------------------------------------
(* Fault handlers: each logs and calls printer.invoke_shutdown(msg); the    *)
(* value is the message, appended to the requests the host has received.    *)

\* _ratio_fault(name, ratio)
RatioFault(name, ratio) == [kind |-> "invalid ratio", name |-> name]

\* _stages_fault(name)
StagesFault(name) == [kind |-> "unknown stage", name |-> name]

\* _heater_fault(name, error)
HeaterFault(name) == [kind |-> "heater init error", name |-> name]

\* _mapping_fault(name, error)
MappingFault(name) == [kind |-> "mapping error", name |-> name]

----------------------------------------------------------------------------
(* __init__: the stage table *)

\* a ratio out of range: _ratio_fault is called and the loop body goes on
RatioCheck(name, ratio) ==
    IF RatioInRange(ratio) THEN <<>> ELSE <<RatioFault(name, ratio)>>

\* an unresolved heater: _stages_fault is called and the loop body goes on
StageCheck(name, heater_obj) ==
    IF heater_obj = None THEN <<StagesFault(name)>> ELSE <<>>

\* one pass of the loop body over (stage_name, temp_ratio), from the table and
\* the shutdown requests so far
MapStage(acc, stage_name, temp_ratio) ==
    LET name  == Strip(stage_name)
        ratio == ParseFloat(temp_ratio)
    IN  IF ratio = None
        THEN \* float() raised: except branch, nothing appended
             [stages |-> acc.stages,
              shutdown |-> Append(acc.shutdown, MappingFault(name))]
        ELSE LET heater_obj == LookupObject(name)
             IN  [stages |-> Append(acc.stages,
                                    [heater_obj |-> heater_obj, ratio |-> ratio[1]]),
                  shutdown |-> acc.shutdown \o RatioCheck(name, ratio[1])
                                            \o StageCheck(name, heater_obj)]

\* zip(stage_names, temp_ratios): the pairs up to the shorter list
ZipLen(stage_names, temp_ratios) ==
    IF Len(stage_names) <= Len(temp_ratios) THEN Len(stage_names)
    ELSE Len(temp_ratios)

\* the loop over the first n pairs
RECURSIVE MapStages(_, _, _)
MapStages(stage_names, temp_ratios, n) ==
    IF n = 0 THEN [stages |-> <<>>, shutdown |-> <<>>]
    ELSE MapStage(MapStages(stage_names, temp_ratios, n - 1),
                  stage_names[n], temp_ratios[n])

----------------------------------------------------------------------------
(* _do_sync *)

\* Format2f with one decimal, f"{adjusted:.1f}", padded
Format1f(adjusted) ==
    LET a == IF adjusted < 0 THEN -adjusted ELSE adjusted
    IN  [neg |-> adjusted < 0, whole |-> a \div 100,
         frac |-> <<(a \div 10) % 10, 0>>]

\* f"{adjusted:.2f}" of a value given in hundredths
Format2f(adjusted) ==
    LET a == IF adjusted < 0 THEN -adjusted ELSE adjusted
    IN  [neg |-> adjusted < 0, whole |-> a \div 100,
         frac |-> <<(a \div 10) % 10, a % 10>>]

\* heater_obj.get_name() if hasattr(heater_obj, 'get_name') else heater_obj
StageName(heater_obj) ==
    IF heater_obj = None THEN <<"N", "o", "n", "e">> ELSE heater_obj[1]

\* the line appended for one stage
ScriptLine(stage, target) ==
    [cmd |-> "SET_HEATER_TEMPERATURE",
     HEATER |-> StageName(stage.heater_obj),
     TARGET |-> Format2f(target * stage.ratio)]

\* "\n".join(lines): the lines in table order
BuildScript(table, target) ==
    [k \in 1..Len(table) |-> ScriptLine(table[k], target)]

\* if not self.heater or target is None: return
SyncSkipped(h, target) == h = None \/ target = None

\* What _do_sync(target) does when the dispatch call raises iff `fail`:
\* the dispatch calls made, the script submitted, whether the call raised,
\* the shutdown requests made (the except branch only logs)
DoSync(target, fail) ==
    IF SyncSkipped(heater, target)
    THEN [dispatches |-> 0, script |-> None, failed |-> FALSE, faults |-> <<>>]
    ELSE [dispatches |-> 1, script |-> Some(BuildScript(stages, target[1])),
          failed |-> fail, faults |-> <<>>]

\* the outcomes of _do_sync(target): the dispatch call, when one is made, returns
\* or raises
SyncOutcomes(target) == { DoSync(target, fail) : fail \in BOOLEAN }

\* what a callback that did nothing observable leaves in `trace`
Quiet ==
    [dispatches |-> 0,   \* calls of gcode.run_script_from_command
     failed |-> FALSE,   \* the dispatch call raised
     faults |-> 0,       \* calls of printer.invoke_shutdown
     samples |-> 0,      \* calls of heater.get_temp
     sampled |-> None,   \* the target get_temp returned, when it returned
     before |-> None,    \* check_event: what the tick before this one sampled
     used |-> None,      \* the target passed to _do_sync
     script |-> None,    \* the script handed to gcode.run_script_from_command
     calls |-> <<>>,     \* every dispatch call in order: its script, and
                         \* whether it returned (ok) or raised
     replies |-> <<>>,   \* gcmd.respond_info messages
     timers |-> 0,       \* calls of reactor.register_timer
     ret |-> None]       \* check_event's return value

\* the record of a callback that called _do_sync(target), whose effects are
\* `sync`, after `samples` calls of get_temp
Synced(sync, target, samples) ==
    [Quiet EXCEPT !.dispatches = sync.dispatches, !.failed = sync.failed,
                  !.faults = Len(sync.faults), !.script = sync.script,
                  !.used = Some(target), !.samples = samples,
                  !.sampled = IF samples = 0 THEN None ELSE Some(target),
                  !.calls = IF sync.dispatches = 0 THEN <<>>
                            ELSE <<[script |-> sync.script[1],
                                    ok |-> ~sync.failed]>>]

----------------------------------------------------------------------------
(* The state before __init__: a configuration, nothing else *)

Init ==
    /\ pc = "config"
    /\ cfg_stages \in ListsOver(Names)
    /\ cfg_temp_ratio \in ListsOver(Literals)
    /\ heater = None
    /\ stages = <<>>
    /\ last_target_temp = None
    /\ check_timer = None
    /\ shutdown = <<>>
    /\ signals = {}
    /\ primary_target = None
    /\ tick_sample = None
    /\ op = "none"
    /\ trace = Quiet

\* __init__(config)
Construct ==
    /\ pc = "config"
    /\ LET built == MapStages(cfg_stages, cfg_temp_ratio,
                              ZipLen(cfg_stages, cfg_temp_ratio))
       IN  /\ stages' = built.stages
           /\ shutdown' = built.shutdown
           /\ trace' = [Quiet EXCEPT !.faults = Len(built.shutdown)]
    /\ pc' = "loaded"
    /\ op' = "__init__"
    /\ UNCHANGED <<cfg_stages, cfg_temp_ratio, heater, last_target_temp,
                   check_timer, signals, primary_target, tick_sample>>

\* HandleConnect with the timer registered before the heater is looked up
HandleConnectTimerFirst ==
    /\ pc = "loaded"
    /\ "connect" \notin signals
    /\ signals' = signals \cup {"connect"}
    /\ check_timer' = Some(NOW)
    /\ \E found \in BOOLEAN :
          IF found
          THEN /\ heater' = Some(PrimaryName)
               /\ shutdown' = shutdown
               /\ trace' = [Quiet EXCEPT !.timers = 1]
          ELSE /\ heater' = heater
               /\ shutdown' = Append(shutdown, HeaterFault(PrimaryName))
               /\ trace' = [Quiet EXCEPT !.timers = 1, !.faults = 1]
    /\ op' = "handle_connect"
    /\ UNCHANGED <<pc, cfg_stages, cfg_temp_ratio, stages, last_target_temp,
                   primary_target, tick_sample>>

\* handle_connect(): heaters.lookup_heater(name) returns the heater or raises
HandleConnect ==
    /\ pc = "loaded"
    /\ "connect" \notin signals
    /\ signals' = signals \cup {"connect"}
    /\ \E found \in BOOLEAN :
          IF found
          THEN /\ heater' = Some(PrimaryName)
               /\ check_timer' = Some(NOW)
               /\ shutdown' = shutdown
               /\ trace' = [Quiet EXCEPT !.timers = 1]
          ELSE /\ heater' = heater
               /\ check_timer' = check_timer
               /\ shutdown' = Append(shutdown, HeaterFault(PrimaryName))
               /\ trace' = [Quiet EXCEPT !.faults = 1]
    /\ op' = "handle_connect"
    /\ UNCHANGED <<pc, cfg_stages, cfg_temp_ratio, stages, last_target_temp,
                   primary_target, tick_sample>>

\* handle_ready(): self._do_sync(self.last_target_temp)
HandleReady ==
    /\ pc = "loaded"
    /\ "ready" \notin signals
    /\ signals' = signals \cup {"ready"}
    /\ \E sync \in SyncOutcomes(last_target_temp) :
          /\ shutdown' = shutdown \o sync.faults
          /\ trace' = Synced(sync, last_target_temp, 0)
    /\ op' = "handle_ready"
    /\ UNCHANGED <<pc, cfg_stages, cfg_temp_ratio, heater, stages,
                   last_target_temp, check_timer, primary_target, tick_sample>>

\* TargetChanged with the test written "if target and ...": a target of 0 is
\* taken for no target
TargetChangedTruthy(target, last) ==
    target # None /\ target[1] # 0 /\ target # last

\* TargetChanged without the test for an absent target
TargetChangedNoneIncluded(target, last) == target # last

\* TargetChanged without the comparison with the last target
TargetChangedAlways(target, last) == target # None

\* target is not None and target != self.last_target_temp
TargetChanged(target, last) == target # None /\ target # last

\* LastAfterSync with the assignment made after a dispatch that returned only
LastAfterSyncOnSuccess(target, sync) ==
    IF sync.failed THEN last_target_temp ELSE target

\* self.last_target_temp = target, assigned before _do_sync(target) is called:
\* the value after the sync, whatever its outcome `sync`
LastAfterSync(target, sync) == target

\* check_event(eventtime), called by the reactor at the timer's wake time,
\* for wake times before `horizon`; heater.get_temp raises iff `err` (or the
\* heater is None), `err` among `errs`
TickUntil(errs, horizon) ==
    /\ pc = "loaded"
    /\ check_timer # None
    /\ check_timer[1] < horizon
    /\ LET eventtime == check_timer[1]
           ret == eventtime + PollInterval
       IN  /\ check_timer' = Some(ret)
           /\ \E err \in errs :
                 IF err \/ heater = None
                 THEN \* except Exception: return eventtime + 1.0
                      /\ trace' = [Quiet EXCEPT
                                      !.samples = IF heater = None THEN 0 ELSE 1,
                                      !.ret = Some(ret),
                                      !.before = tick_sample]
                      /\ tick_sample' = None
                      /\ UNCHANGED <<last_target_temp, shutdown>>
                 ELSE LET target == primary_target
                      IN  /\ tick_sample' = Some(target)
                          /\ IF TargetChanged(target, last_target_temp)
                             THEN \E sync \in SyncOutcomes(target) :
                                      /\ last_target_temp' = LastAfterSync(target, sync)
                                      /\ shutdown' = shutdown \o sync.faults
                                      /\ trace' = [Synced(sync, target, 1) EXCEPT
                                                     !.ret = Some(ret),
                                                     !.before = tick_sample]
                             ELSE /\ trace' = [Quiet EXCEPT
                                                     !.samples = 1,
                                                     !.sampled = Some(target),
                                                     !.ret = Some(ret),
                                                     !.before = tick_sample]
                                  /\ UNCHANGED <<last_target_temp, shutdown>>
    /\ op' = "check_event"
    /\ UNCHANGED <<pc, cfg_stages, cfg_temp_ratio, heater, stages, signals,
                   primary_target>>

\* check_event(eventtime) for the wake times before MaxTime
Tick(errs) == TickUntil(errs, MaxTime)

\* check_event(eventtime): sampling may raise on any tick
CheckEvent == Tick(BOOLEAN)

\* TriggerSamples without the test of self.heater
TriggerSamplesUnresolved(last, h) == last = None

\* TriggerSamples without the test of the known target: always resample
TriggerSamplesAlways(last, h) == h # None

\* if target is None and self.heater: the trigger samples the primary itself
TriggerSamples(last, h) == last = None /\ h # None

\* CmdSTAGESYNC with the target it sampled stored in self.last_target_temp
CmdSTAGESYNCRemembers ==
    /\ pc = "loaded"
    /\ LET sampling == TriggerSamples(last_target_temp, heater)
           target == IF sampling THEN primary_target ELSE last_target_temp
       IN  \E err \in (IF sampling THEN BOOLEAN ELSE {FALSE}) :
              IF err
              THEN /\ trace' = [Quiet EXCEPT !.samples = 1,
                                             !.replies = <<"manual trigger", "error">>]
                   /\ UNCHANGED <<shutdown, last_target_temp>>
              ELSE \E sync \in SyncOutcomes(target) :
                      /\ last_target_temp' = target
                      /\ shutdown' = shutdown \o sync.faults
                      /\ trace' = [Synced(sync, target, IF sampling THEN 1 ELSE 0)
                                     EXCEPT !.replies = <<"manual trigger",
                                                          "update completed">>]
    /\ op' = "cmd_STAGESYNC"
    /\ UNCHANGED <<pc, cfg_stages, cfg_temp_ratio, heater, stages,
                   check_timer, signals, primary_target, tick_sample>>

\* cmd_STAGESYNC(gcmd), registered by __init__; heater.get_temp, when it is
\* called, raises iff `err`
CmdSTAGESYNC ==
    /\ pc = "loaded"
    /\ LET sampling == TriggerSamples(last_target_temp, heater)
           target == IF sampling THEN primary_target ELSE last_target_temp
       IN  \E err \in (IF sampling THEN BOOLEAN ELSE {FALSE}) :
              IF err
              THEN \* except Exception as e: respond_info(error)
                   /\ trace' = [Quiet EXCEPT !.samples = 1,
                                             !.replies = <<"manual trigger", "error">>]
                   /\ shutdown' = shutdown
              ELSE \E sync \in SyncOutcomes(target) :
                      /\ shutdown' = shutdown \o sync.faults
                      /\ trace' = [Synced(sync, target, IF sampling THEN 1 ELSE 0)
                                     EXCEPT !.replies = <<"manual trigger",
                                                          "update completed">>]
    /\ op' = "cmd_STAGESYNC"
    /\ UNCHANGED <<pc, cfg_stages, cfg_temp_ratio, heater, stages,
                   last_target_temp, check_timer, signals, primary_target,
                   tick_sample>>

\* the host: the primary heater is commanded to another target (or has none);
\* the plugin reads the target only through self.heater
SetTarget ==
    /\ heater # None
    /\ \E t \in {None} \cup {Some(x) : x \in Targets} :
          /\ t # primary_target
          /\ primary_target' = t
    /\ UNCHANGED <<pc, cfg_stages, cfg_temp_ratio, heater, stages,
                   last_target_temp, check_timer, shutdown, signals,
                   tick_sample, op, trace>>

Next ==
    \/ Construct
    \/ HandleConnect
    \/ HandleReady
    \/ CheckEvent
    \/ CmdSTAGESYNC
    \/ SetTarget

Spec == Init /\ [][Next]_vars

----------------------------------------------------------------------------
(* The Sync Engine alone: a valid stage table and a present target, synced   *)
(* through the manual trigger                                                *)

\* ratios of the tables tried, all within [0.0, 2.0]
RatioGrid == { 0, 1, 50, 99, 120, 200 }
\* targets tried
MaxTarget == 3
TargetGrid == (0..MaxTarget) \cup { 200, 250 }

ValidEntries ==
    { [heater_obj |-> Some(n), ratio |-> r] : n \in Registry, r \in RatioGrid }

ValidTables == UNION { [1..n -> ValidEntries] : n \in 1..MaxStages }

InitSync ==
    /\ pc = "loaded"
    /\ cfg_stages = <<>>
    /\ cfg_temp_ratio = <<>>
    /\ heater = Some(PrimaryName)
    /\ stages \in ValidTables
    /\ last_target_temp = None
    /\ check_timer = None
    /\ shutdown = <<>>
    /\ signals = {"connect"}
    /\ primary_target \in { Some(t) : t \in TargetGrid }
    /\ tick_sample = None
    /\ op = "none"
    /\ trace = Quiet

SpecSync == InitSync /\ [][CmdSTAGESYNC]_vars

----------------------------------------------------------------------------
(* Reading a script back *)

\* the number of hundredths a formatted TARGET denotes
TargetValue(f) ==
    LET a == f.whole * 100 + f.frac[1] * 10 + f.frac[2]
    IN  IF f.neg THEN -a ELSE a

\* the formatted TARGET has two decimal digits
TwoDecimals(f) ==
    /\ Len(f.frac) = 2
    /\ \A i \in 1..2 : f.frac[i] \in 0..9

\* line k of `script` is the command of entry k of `table` for target t
LineFor(script, table, k, t) ==
    /\ script[k].cmd = "SET_HEATER_TEMPERATURE"
    /\ script[k].HEATER = (IF table[k].heater_obj = None
                           THEN <<"N", "o", "n", "e">>
                           ELSE table[k].heater_obj[1])
    /\ TwoDecimals(script[k].TARGET)
    /\ TargetValue(script[k].TARGET) = t * table[k].ratio

\* `script` has one line per entry of `table`, in table order, for target t
BatchFor(script, table, t) ==
    /\ Len(script) = Len(table)
    /\ \A k \in 1..Len(table) : LineFor(script, table, k, t)

\* the callback that ran last sampled a present target
SampledPresent == trace.sampled # None /\ trace.sampled[1] # None

----------------------------------------------------------------------------
(* Claims *)

\* C1: a poll tick that samples a present target different from
\* last_target_temp submits exactly one dispatch, whose script has one
\* SET_HEATER_TEMPERATURE line per stage-table entry in table order; no tick
\* submits more than one dispatch.
C1_TickStep == op' = "check_event" /\ check_timer' # check_timer

C1_OneBatchPerChangedTick ==
    [][ C1_TickStep =>
          /\ trace'.dispatches <= 1
          /\ (SampledPresent' /\ trace'.sampled[1] # last_target_temp
                => /\ trace'.dispatches = 1
                   /\ trace'.script # None
                   /\ BatchFor(trace'.script[1], stages, trace'.sampled[1][1])) ]_vars

\* C1 witness: a tick has dispatched a batch of two lines for two different heaters
C1_Witness ==
    /\ op = "check_event"
    /\ trace.dispatches = 1
    /\ SampledPresent
    /\ Len(stages) = 2
    /\ Len(trace.script[1]) = 2
    /\ trace.script[1][1].HEATER # trace.script[1][2].HEATER

\* C2: if the target sampled by a poll tick equals the target sampled by the
\* tick before it, the tick submits no dispatch, whatever ran between the two.
C2_SameTargetNoDispatch ==
    (op = "check_event" /\ trace.sampled # None /\ trace.before = trace.sampled)
        => trace.dispatches = 0

\* C2 witness: the second of two ticks that both sampled 200, after the ready
\* signal, has run
C2_Witness ==
    /\ op = "check_event"
    /\ trace.sampled = Some(Some(200))
    /\ trace.before = trace.sampled
    /\ "ready" \in signals
    /\ check_timer = Some(2)

\* C3: whenever the batch dispatch call of _do_sync fails, shutdown is
\* requested (the Fault Escalator is invoked).
C3_DispatchFailureEscalates == trace.failed => trace.faults >= 1

\* a ratio literal among the configured pairs that float() rejects or that is
\* outside [0.0, 2.0]
BadRatioConfigured ==
    \E k \in 1..ZipLen(cfg_stages, cfg_temp_ratio) :
        cfg_temp_ratio[k] \in { "abc", "2.5" }

\* C4: with an unparsable or out-of-range ratio literal configured,
\* construction requests shutdown with no poll timer registered, and no
\* heater command is dispatched in any later state.
C4_BadRatioNeverDispatches ==
    (pc = "loaded" /\ BadRatioConfigured)
        => /\ shutdown # <<>>
           /\ (op = "__init__" => check_timer = None)
           /\ trace.dispatches = 0

\* C5: every mapping stored in the stage table has a ratio within [0.0, 2.0].
C5_StageRatiosInRange ==
    \A k \in 1..Len(stages) : 0 <= stages[k].ratio /\ stages[k].ratio <= 200

\* C6: when construction has finished without requesting shutdown, the stage
\* table is non-empty and as long as the list of names and as the list of
\* ratio literals.
C6_TableMatchesConfig ==
    (pc = "loaded" /\ shutdown = <<>>)
        => /\ Len(stages) >= 1
           /\ Len(stages) = Len(cfg_stages)
           /\ Len(stages) = Len(cfg_temp_ratio)

\* a configured stage name, among the configured pairs, that the registry
\* does not resolve
UnresolvedStageConfigured ==
    \E k \in 1..ZipLen(cfg_stages, cfg_temp_ratio) : cfg_stages[k] = <<"G">>

\* C7: with a stage name the registry does not resolve, construction requests
\* shutdown, no mapping with an unresolved heater is stored, and no later sync
\* emits a command from the table.
C7_UnresolvedStageNeverUsed ==
    (pc = "loaded" /\ UnresolvedStageConfigured)
        => /\ shutdown # <<>>
           /\ \A k \in 1..Len(stages) : stages[k].heater_obj # None
           /\ trace.dispatches = 0

\* C8 as claimed: the manual trigger, with no known target and the primary
\* resolved, samples once and dispatches a batch computed from the sample;
\* with a known target it dispatches a batch computed from it without sampling.
C8_TriggerAlwaysDispatches ==
    op = "cmd_STAGESYNC"
        => /\ (last_target_temp = None /\ heater # None)
                => /\ trace.samples = 1
                   /\ trace.dispatches = 1
                   /\ SampledPresent
                   /\ BatchFor(trace.script[1], stages, trace.sampled[1][1])
           /\ last_target_temp # None
                => /\ trace.samples = 0
                   /\ trace.dispatches = 1
                   /\ BatchFor(trace.script[1], stages, last_target_temp[1])

\* C8 (amended): the manual trigger, with no known target and the primary
\* resolved, calls get_temp once; when the call returns a present target it
\* dispatches one batch computed from it, and when it returns no target or
\* raises it dispatches nothing. With a known target it dispatches one batch
\* computed from last_target_temp and does not call get_temp.
C8_TriggerTarget ==
    op = "cmd_STAGESYNC"
        => /\ (last_target_temp = None /\ heater # None)
                => /\ trace.samples = 1
                   /\ IF SampledPresent
                      THEN /\ trace.dispatches = 1
                           /\ BatchFor(trace.script[1], stages,
                                       trace.sampled[1][1])
                      ELSE trace.dispatches = 0
           /\ last_target_temp # None
                => /\ trace.samples = 0
                   /\ trace.dispatches = 1
                   /\ BatchFor(trace.script[1], stages, last_target_temp[1])

\* C8 witness: a trigger with a known target of 200 has dispatched from it
\* while the primary's target is 0
C8_Witness ==
    /\ op = "cmd_STAGESYNC"
    /\ last_target_temp = Some(200)
    /\ primary_target = Some(0)
    /\ trace.used = Some(Some(200))
    /\ trace.samples = 0
    /\ trace.dispatches = 1
    /\ Len(stages) = 2

\* C9: the manual trigger replies "update completed" only when the dispatch
\* did not fail, and replies with the error message when it failed.
C9_ReplyReflectsOutcome ==
    (op = "cmd_STAGESYNC" /\ trace.failed)
        => /\ \A i \in 1..Len(trace.replies) : trace.replies[i] # "update completed"
           /\ \E i \in 1..Len(trace.replies) : trace.replies[i] = "error"

\* C10: for every stage-table entry k with ratio r_k in [0.0, 2.0] and every
\* target t >= 0, line k of the emitted batch is the SET_HEATER_TEMPERATURE
\* command naming stage k with TARGET t * r_k to two decimals; stages L, R with
\* ratios 0.5, 1.2 and target 200 yield 100.00 then 240.00.
C10_BatchLines ==
    (trace.dispatches = 1 /\ trace.used # None /\ trace.used[1] # None)
        => /\ trace.script # None
           /\ Len(trace.script[1]) = Len(stages)
           /\ \A k \in 1..Len(stages) :
                 (0 <= stages[k].ratio /\ stages[k].ratio <= 200)
                    => LineFor(trace.script[1], stages, k, trace.used[1][1])
           /\ (/\ stages = << [heater_obj |-> Some(<<"L">>), ratio |-> 50],
                              [heater_obj |-> Some(<<"R">>), ratio |-> 120] >>
               /\ trace.used = Some(Some(200)))
                => trace.script[1] =
                     << [cmd |-> "SET_HEATER_TEMPERATURE", HEATER |-> <<"L">>,
                         TARGET |-> [neg |-> FALSE, whole |-> 100,
                                     frac |-> <<0, 0>>]],
                        [cmd |-> "SET_HEATER_TEMPERATURE", HEATER |-> <<"R">>,
                         TARGET |-> [neg |-> FALSE, whole |-> 240,
                                     frac |-> <<0, 0>>]] >>

\* C10 witness: the batch for L, R with ratios 0.5, 1.2 and target 200 has been
\* emitted
C10_Witness ==
    /\ op = "cmd_STAGESYNC"
    /\ trace.dispatches = 1
    /\ trace.used = Some(Some(200))
    /\ stages = << [heater_obj |-> Some(<<"L">>), ratio |-> 50],
                   [heater_obj |-> Some(<<"R">>), ratio |-> 120] >>
    /\ trace.script[1][2].TARGET.whole = 240

\* C11: once shutdown has been requested, every return of check_event is the
\* reactor's NEVER, and the tick neither samples the heater nor dispatches.
C11_NeverAfterFault ==
    (op = "check_event" /\ shutdown # <<>>)
        => /\ trace.ret = Some(NEVER)
           /\ trace.samples = 0
           /\ trace.dispatches = 0

\* a step of check_event (every tick moves the timer's wake time)
TickStep == op' = "check_event" /\ check_timer' # check_timer

\* C12: a batch whose dispatch failed on a poll tick is not retried by the
\* poll loop: the tick leaves last_target_temp at the sampled target whatever
\* the dispatch outcome, only a tick changes last_target_temp, a tick that
\* samples the target last_target_temp holds submits nothing and keeps it, and
\* every tick returns eventtime + 1.
C12_FailedBatchNotRetried ==
    [][ /\ TickStep =>
             /\ trace'.ret = Some(check_timer[1] + 1)
             /\ check_timer' = trace'.ret
             /\ (trace'.dispatches = 1
                   => /\ SampledPresent'
                      /\ last_target_temp' = trace'.sampled[1])
             /\ (SampledPresent' /\ trace'.sampled[1] = last_target_temp
                   => /\ trace'.dispatches = 0
                      /\ last_target_temp' = last_target_temp)
        /\ (last_target_temp' # last_target_temp => TickStep) ]_vars

\* C12 witness: a tick whose dispatch failed has recorded the target 200 and
\* returned the next wake time
C12_Witness ==
    /\ op = "check_event"
    /\ trace.failed
    /\ trace.dispatches = 1
    /\ last_target_temp = Some(200)
    /\ trace.ret = Some(2)
    /\ check_timer = Some(2)

\* C13: a poll tick whose sample is absent, or whose sampling call raises,
\* submits no dispatch, requests no shutdown, leaves last_target_temp unchanged
\* and returns eventtime + 1, so the timer stays scheduled.
C13_TransientSampleAbsorbed ==
    [][ (TickStep /\ ~SampledPresent')
          => /\ trace'.dispatches = 0
             /\ trace'.faults = 0
             /\ shutdown' = shutdown
             /\ last_target_temp' = last_target_temp
             /\ trace'.ret = Some(check_timer[1] + 1)
             /\ check_timer' = trace'.ret ]_vars

\* C13 witness: the second tick raised while sampling, after the first had
\* recorded 200
C13_Witness ==
    /\ op = "check_event"
    /\ trace.samples = 1
    /\ trace.sampled = None
    /\ trace.before = Some(Some(200))
    /\ last_target_temp = Some(200)
    /\ trace.ret = Some(2)

\* C13 second witness state: a tick has sampled an absent target after 200 was
\* recorded
C13_AbsentSampled ==
    /\ op = "check_event"
    /\ trace.sampled = Some(None)
    /\ last_target_temp = Some(200)

\* C14: handle_connect either fails to resolve the primary heater, and then
\* requests shutdown, leaves self.heater unset and registers no timer, or
\* resolves it, and then sets self.heater and registers exactly one timer with
\* first wake time NOW; without a resolved primary no poll tick ever runs.
C14_ConnectOutcome ==
    /\ op = "handle_connect"
         => \/ /\ trace.faults = 1
               /\ shutdown # <<>>
               /\ shutdown[Len(shutdown)].kind = "heater init error"
               /\ heater = None
               /\ trace.timers = 0
               /\ check_timer = None
            \/ /\ trace.faults = 0
               /\ heater = Some(PrimaryName)
               /\ trace.timers = 1
               /\ check_timer = Some(0)
    /\ heater = None
         => /\ check_timer = None
            /\ op # "check_event"
            /\ tick_sample = None

\* C14 witness: connect has failed to resolve the primary heater after a clean
\* construction
C14_Witness ==
    /\ op = "handle_connect"
    /\ trace.faults = 1
    /\ heater = None
    /\ Len(shutdown) = 1
    /\ "ready" \in signals

\* C14, the other case: connect has resolved the primary heater
C14_Resolved ==
    /\ op = "handle_connect"
    /\ heater = Some(PrimaryName)
    /\ check_timer = Some(0)

\* C15: a sync requested while self.heater is unset or with an absent target
\* submits no dispatch and requests no shutdown; a manual trigger issued
\* before the primary heater is resolved samples nothing and still replies;
\* no dispatch is submitted while the primary heater is unresolved.
C15_SyncSkippedQuietly ==
    /\ (trace.used # None /\ (heater = None \/ trace.used[1] = None))
         => /\ trace.dispatches = 0
            /\ trace.faults = 0
    /\ (op = "cmd_STAGESYNC" /\ heater = None)
         => /\ trace.samples = 0
            /\ trace.used = Some(None)
            /\ trace.replies = <<"manual trigger", "update completed">>
    /\ heater = None => trace.dispatches = 0

\* C15 witness: a manual trigger has run after a connect that did not resolve
\* the primary heater
C15_Witness ==
    /\ op = "cmd_STAGESYNC"
    /\ heater = None
    /\ "connect" \in signals
    /\ trace.used = Some(None)
    /\ Len(trace.replies) = 2

\* C15, the other case: the ready signal has forced a sync with the primary
\* resolved and no target known
C15_ReadyUnknownTarget ==
    /\ op = "handle_ready"
    /\ heater # None
    /\ trace.used = Some(None)

----------------------------------------------------------------------------
(* The verbose variant (dev/stagesync-verbose-mode.py): its poll tick and    *)
(* sync_temperatures, from the state its handle_connect leaves               *)

\* gcode_fault(stage_name, error)
GcodeFault(name) == [kind |-> "error sending G-code", name |-> name]

\* the command of one stage: the adjusted target is written unformatted, kept
\* here as its value in hundredths
VerboseLine(stage, target) ==
    [cmd |-> "SET_HEATER_TEMPERATURE",
     HEATER |-> StageName(stage.heater_obj),
     TARGET |-> target * stage.ratio]

\* the indices of `fails` in increasing order
FailingCalls(n, fails) ==
    LET Fails(k) == k \in fails
    IN  SelectSeq([k \in 1..n |-> k], Fails)

\* sync_temperatures(target) when the run_script call of stage k raises iff
\* k is in `fails`: the dispatch calls made, one per stage, and the shutdown
\* requests of gcode_fault, the loop going on after each
SyncTemperatures(h, table, target, fails) ==
    IF h = None \/ target = None
    THEN [calls |-> <<>>, faults |-> <<>>]
    ELSE [calls |-> [k \in 1..Len(table) |->
                        [script |-> <<VerboseLine(table[k], target[1])>>,
                         ok |-> k \notin fails]],
          faults |-> [i \in 1..Len(FailingCalls(Len(table), fails)) |->
                        GcodeFault(StageName(
                            table[FailingCalls(Len(table), fails)[i]].heater_obj))]]

\* stage tables of the states the verbose variant starts from
SmallTables ==
    UNION { [1..n -> { e \in ValidEntries : e.ratio \in {50, 120} }] :
              n \in 1..MaxStages }

InitVerbose ==
    /\ pc = "loaded"
    /\ cfg_stages = <<>>
    /\ cfg_temp_ratio = <<>>
    /\ heater = Some(PrimaryName)
    /\ stages \in SmallTables
    /\ last_target_temp = None
    /\ check_timer = Some(NOW)
    /\ shutdown = <<>>
    /\ signals = {"connect"}
    /\ primary_target \in {None} \cup { Some(t) : t \in Targets }
    /\ tick_sample = None
    /\ op = "none"
    /\ trace = Quiet

\* the verbose check_event(eventtime)
VerboseCheckEvent ==
    /\ check_timer # None
    /\ check_timer[1] < MaxTime
    /\ LET ret == check_timer[1] + PollInterval
       IN  /\ check_timer' = Some(ret)
           /\ \E err \in BOOLEAN :
                 IF err \/ heater = None
                 THEN /\ trace' = [Quiet EXCEPT
                                      !.samples = IF heater = None THEN 0 ELSE 1,
                                      !.ret = Some(ret), !.before = tick_sample]
                      /\ tick_sample' = None
                      /\ UNCHANGED <<last_target_temp, shutdown>>
                 ELSE LET target == primary_target
                      IN  /\ tick_sample' = Some(target)
                          /\ IF target # None /\ target # last_target_temp
                             THEN \E fails \in SUBSET (1..Len(stages)) :
                                    LET sync == SyncTemperatures(heater, stages,
                                                                 target, fails)
                                    IN  /\ last_target_temp' = target
                                        /\ shutdown' = shutdown \o sync.faults
                                        /\ trace' =
                                             [Quiet EXCEPT
                                                !.samples = 1,
                                                !.sampled = Some(target),
                                                !.used = Some(target),
                                                !.dispatches = Len(sync.calls),
                                                !.calls = sync.calls,
                                                !.failed = sync.faults # <<>>,
                                                !.faults = Len(sync.faults),
                                                !.ret = Some(ret),
                                                !.before = tick_sample]
                             ELSE /\ trace' = [Quiet EXCEPT
                                                !.samples = 1,
                                                !.sampled = Some(target),
                                                !.ret = Some(ret),
                                                !.before = tick_sample]
                                  /\ UNCHANGED <<last_target_temp, shutdown>>
    /\ op' = "verbose check_event"
    /\ UNCHANGED <<pc, cfg_stages, cfg_temp_ratio, heater, stages, signals,
                   primary_target>>

NextVerbose ==
    \/ VerboseCheckEvent
    \/ SetTarget

SpecVerbose == InitVerbose /\ [][NextVerbose]_vars

\* C16: in the verbose variant, all commands of one target change are
\* submitted as one dispatch call, so that nothing can come between two stage
\* commands of a sync and a failure cannot leave only some stages updated.
C16_VerboseSingleBatch ==
    op = "verbose check_event"
        => /\ trace.dispatches <= 1
           /\ \A j, k \in 1..Len(trace.calls) :
                 trace.calls[j].ok = trace.calls[k].ok

----------------------------------------------------------------------------
\* C17: last_target_temp is changed only by a poll tick and the primary
\* heater reference only by handle_connect; the manual trigger, the sync
\* engine and the fault handlers leave both as they were, and the stage table
\* is changed by no operation after construction.
C17_SyncStateWriters ==
    [][ /\ (last_target_temp' # last_target_temp => TickStep)
        /\ (heater' # heater
              => /\ op' = "handle_connect"
                 /\ "connect" \notin signals
                 /\ "connect" \in signals')
        /\ (stages' # stages => pc = "config" /\ pc' = "loaded")
        /\ (op' = "cmd_STAGESYNC" /\ trace' # trace
              => UNCHANGED <<last_target_temp, heater, stages>>)
        /\ (shutdown' # shutdown /\ pc = "loaded" /\ ~TickStep
              => UNCHANGED <<last_target_temp, stages>>) ]_vars

\* a manual trigger has sampled a present target and dispatched its batch,
\* and last_target_temp is still None
C17_Witness ==
    /\ op = "cmd_STAGESYNC"
    /\ heater # None
    /\ stages # <<>>
    /\ trace.samples = 1
    /\ SampledPresent
    /\ trace.dispatches = 1
    /\ last_target_temp = None

\* C18: a manual trigger that samples the primary target itself does not
\* record the value, so the first poll tick that observes a present target
\* dispatches the batch of that target whatever manual triggers came before:
\* a tick with last_target_temp None, and the first tick of all, dispatch for
\* any present sample.
C18_FirstObservingTickDispatches ==
    [][ /\ (op' = "cmd_STAGESYNC" /\ trace'.samples = 1 /\ trace' # trace
              => /\ last_target_temp = None
                 /\ last_target_temp' = None)
        /\ ((TickStep /\ SampledPresent'
               /\ (last_target_temp = None \/ check_timer = Some(NOW)))
              => /\ trace'.dispatches = 1
                 /\ trace'.script # None
                 /\ BatchFor(trace'.script[1], stages, trace'.sampled[1][1])
                 /\ last_target_temp' = trace'.sampled[1]) ]_vars

\* the first later tick of a loop whose earlier tick saw no target: it
\* observes 200 and dispatches
C18_Witness ==
    /\ op = "check_event"
    /\ check_timer = Some(2)
    /\ trace.before = Some(None)
    /\ trace.sampled = Some(Some(200))
    /\ trace.dispatches = 1
    /\ stages # <<>>
    /\ last_target_temp = Some(200)

----------------------------------------------------------------------------
(* The host's order of delivery: connect, then ready, then the poll ticks    *)

\* klippy:ready is sent after klippy:connect
HostReady == "connect" \in signals /\ HandleReady

\* the reactor runs timers once the host is ready
HostCheckEvent == "ready" \in signals /\ CheckEvent

NextHost ==
    \/ Construct
    \/ HandleConnect
    \/ HostReady
    \/ HostCheckEvent
    \/ CmdSTAGESYNC
    \/ SetTarget

SpecHost == Init /\ [][NextHost]_vars

\* C19: when connect and ready are delivered once each, in that order, before
\* any poll tick, handle_ready syncs the target None and dispatches nothing,
\* whatever manual triggers came before; a dispatch comes from a poll tick or
\* a manual trigger only.
C19_ReadyNeverDispatches ==
    /\ op = "handle_ready"
         => /\ trace.used = Some(None)
            /\ trace.dispatches = 0
            /\ trace.faults = 0
            /\ last_target_temp = None
    /\ trace.dispatches >= 1 => op \in {"check_event", "cmd_STAGESYNC"}
    /\ "ready" \notin signals => last_target_temp = None /\ check_timer \in {None, Some(NOW)}

\* handle_ready has run with the primary resolved and its target at 200
C19_Witness ==
    /\ op = "handle_ready"
    /\ heater # None
    /\ stages # <<>>
    /\ primary_target = Some(200)
    /\ trace.dispatches = 0

----------------------------------------------------------------------------
(* The poll loop after a successful connect, in an environment that settles: *)
(* sampling errors and changes of the primary's target stop at MaxTime, and  *)
(* the reactor keeps waking the timer                                        *)

\* the wake times of the loop: MaxTime unsettled ones, then two settled ones
LiveHorizon == MaxTime + 2

\* the environment has settled
Settled == check_timer # None /\ check_timer[1] >= MaxTime

LiveTables ==
    UNION { [1..n -> { e \in ValidEntries : e.ratio = 50 }] : n \in 1..MaxStages }

\* the state handle_connect leaves when the primary resolves
InitLive ==
    /\ pc = "loaded"
    /\ cfg_stages = <<>>
    /\ cfg_temp_ratio = <<>>
    /\ heater = Some(PrimaryName)
    /\ stages \in LiveTables
    /\ last_target_temp = None
    /\ check_timer = Some(NOW)
    /\ shutdown = <<>>
    /\ signals = {"connect"}
    /\ primary_target \in {None} \cup { Some(t) : t \in Targets }
    /\ tick_sample = None
    /\ op = "none"
    /\ trace = Quiet

\* check_event: sampling may raise until the environment has settled
CheckEventSettling ==
    TickUntil(IF Settled THEN {FALSE} ELSE BOOLEAN, LiveHorizon)

\* the primary's target changes until the environment has settled
SetTargetSettling == ~Settled /\ SetTarget

NextLive ==
    \/ CheckEventSettling
    \/ SetTargetSettling
    \/ HandleReady
    \/ CmdSTAGESYNC

\* the reactor calls check_event again at every wake time it returned
SpecLive == InitLive /\ [][NextLive]_vars /\ WF_vars(CheckEventSettling)

\* C20: once sampling has stopped failing and the primary's target stays a
\* present value v, the poll loop eventually holds last_target_temp = v for
\* good; last_target_temp takes a value only in a tick that submits the batch
\* of that value, and a settled tick that samples last_target_temp's value
\* submits nothing and leaves it.
C20_SettlesOnTarget ==
    /\ [](Settled /\ primary_target # None
            => <>[](last_target_temp = primary_target))
    /\ [][ last_target_temp' # last_target_temp
             => /\ TickStep
                /\ trace'.dispatches = 1
                /\ trace'.script # None
                /\ last_target_temp' # None
                /\ BatchFor(trace'.script[1], stages, last_target_temp'[1]) ]_vars
    /\ [][ (TickStep /\ Settled /\ last_target_temp = primary_target)
             => /\ trace'.dispatches = 0
                /\ last_target_temp' = last_target_temp ]_vars

\* the last tick of a settled loop: it samples 200 again, as the tick before
\* it did, and dispatches nothing
C20_Witness ==
    /\ op = "check_event"
    /\ check_timer = Some(LiveHorizon)
    /\ trace.before = Some(Some(200))
    /\ trace.sampled = Some(Some(200))
    /\ trace.dispatches = 0
    /\ last_target_temp = Some(200)
    /\ primary_target = Some(200)

====
